---- MODULE Spec2Model ----
(***************************************************************************)
(* A model of the Deck class of @block52/deck: a 52-card deck with a       *)
(* seeded Fisher-Yates shuffle, a content hash of the card order, a hash   *)
(* of the last seed, a dealing cursor and a string form.                   *)
(*                                                                         *)
(* JavaScript strings are modelled as sequences of one-character strings,  *)
(* so that split, join, the mnemonic grammar and parseInt are computed.    *)
(* Array indices are the JavaScript ones (0-based): the cards array is a   *)
(* function on the slots 0..51 and on the negative indices j that an       *)
(* assignment cards[j] has made properties of the array object.            *)
(***************************************************************************)
EXTENDS Integers, Sequences, FiniteSets

VARIABLES
    deck,       \* the Deck instance under test (cards, hash, seedHash, top)
    deck2,      \* a second Deck instance, shuffled beside the first
    call,       \* the last call made: its name and arguments
    result,     \* what that call returned or threw
    shuffles    \* number of shuffle calls made so far

vars == <<deck, deck2, call, result, shuffles>>

----------------------------------------------------------------------------
(* Bounds of the model *)

\* Spec: shuffle calls per behaviour, and the value the cursor is not advanced beyond
MaxShuffles == 2

MaxTop == 3

\* DealSpec: the same two bounds, the cursor free to pass the end of the deck
MaxDealShuffles == 1

MaxDealTop == 54

----------------------------------------------------------------------------
(* Program constants *)

CLUBS == 1
DIAMONDS == 2
HEARTS == 3
SPADES == 4

NumRanks == 13

\* cards of a deck: "Deck must contain 52 cards."
NumCards == 52

SUIT == CLUBS..SPADES

Slots == 0..(NumCards - 1)

\* the value a missing array element or property reads as
undefined == [undefined |-> TRUE]

ZERO_HASH == <<"0", "x">> \o [i \in 1..64 |-> "0"]

----------------------------------------------------------------------------
(* Strings *)

Digits == <<"0", "1", "2", "3", "4", "5", "6", "7", "8", "9">>

IsDigit(c) == \E k \in 1..10 : Digits[k] = c

DigitValue(c) == (CHOOSE k \in 1..10 : Digits[k] = c) - 1

\* Number.prototype.toString of an integer, base 10
RECURSIVE NatToString(_)
NatToString(n) ==
    IF n < 10 THEN <<Digits[n + 1]>>
    ELSE Append(NatToString(n \div 10), Digits[(n % 10) + 1])

NumberToString(n) == IF n < 0 THEN <<"-">> \o NatToString(-n) ELSE NatToString(n)

\* parseInt(s, 10) of a non-empty string of digits
RECURSIVE ParseDigits(_, _, _)
ParseDigits(s, i, acc) ==
    IF i > Len(s) THEN acc
    ELSE ParseDigits(s, i + 1, 10 * acc + DigitValue(s[i]))

parseInt(s) == ParseDigits(s, 1, 0)

\* String.prototype.toUpperCase on the letters of the mnemonic grammar
toUpperCase(c) ==
    CASE c = "a" -> "A"
      [] c = "j" -> "J"
      [] c = "q" -> "Q"
      [] c = "k" -> "K"
      [] c = "c" -> "C"
      [] c = "d" -> "D"
      [] c = "h" -> "H"
      [] c = "s" -> "S"
      [] OTHER -> c

\* String.prototype.split("-"): the empty string splits into one empty token.
\* Each token ends before a "-" or at the end of the string.
split(s) ==
    LET IsStop(p) == p = Len(s) + 1 \/ s[p] = "-"
        stops == SelectSeq([p \in 1..(Len(s) + 1) |-> p], IsStop)
    IN [k \in 1..Len(stops) |->
            SubSeq(s, IF k = 1 THEN 1 ELSE stops[k - 1] + 1, stops[k] - 1)]

\* Array.prototype.join("-") of an array of strings: the parts lo..hi
RECURSIVE JoinRange(_, _, _)
JoinRange(parts, lo, hi) ==
    IF lo > hi THEN <<>>
    ELSE IF lo = hi THEN parts[lo]
    ELSE LET mid == (lo + hi) \div 2
         IN JoinRange(parts, lo, mid) \o <<"-">> \o JoinRange(parts, mid + 1, hi)

join(parts) == JoinRange(parts, 1, Len(parts))

startsWith(s, c) == Len(s) >= 1 /\ s[1] = c

endsWith(s, c) == Len(s) >= 1 /\ s[Len(s)] = c

\* the remainder operator of JavaScript: the sign of the dividend
Rem(a, b) == IF a >= 0 THEN a % b ELSE -((-a) % b)

\* crypto.createHash("sha256").update(s).digest("hex"), as an injective
\* function of the hashed string (collision-free idealisation)
Sha256Hex(s) == <<"sha256">> \o s

----------------------------------------------------------------------------
(* Results of a call *)

Void == [kind |-> "void"]

Throw(message) == [kind |-> "throw", error |-> message]

InvalidDeckLength == <<"Deck must contain 52 cards.">>

SeedLengthMismatch(seedLength, cardsLength) ==
    <<"Seed length (", seedLength, ") must match cards length (", cardsLength, ")">>

InvalidMnemonic(mnemonic) == <<"Invalid card mnemonic: ", mnemonic>>

\* reading .mnemonic of undefined
TypeErrorUndefined == <<"TypeError: Cannot read properties of undefined (reading 'mnemonic')">>

----------------------------------------------------------------------------
(* Mnemonic codec *)

rankMap(rank) ==
    CASE rank = 1 -> <<"A">>
      [] rank = 11 -> <<"J">>
      [] rank = 12 -> <<"Q">>
      [] rank = 13 -> <<"K">>
      [] OTHER -> NumberToString(rank)

suitMap(suit) ==
    CASE suit = CLUBS -> <<"C">>
      [] suit = DIAMONDS -> <<"D">>
      [] suit = HEARTS -> <<"H">>
      [] suit = SPADES -> <<"S">>
      [] OTHER -> <<"u", "n", "d", "e", "f", "i", "n", "e", "d">>

\* getCardMnemonic with the suit letter put before the rank
getCardMnemonicSuitFirst(suit, rank) == suitMap(suit) \o rankMap(rank)

getCardMnemonic(suit, rank) == rankMap(rank) \o suitMap(suit)

IsRankLetter(c) == toUpperCase(c) \in {"A", "J", "Q", "K"}

IsSuitLetter(c) == toUpperCase(c) \in {"C", "D", "H", "S"}

\* /^([AJQKajqk]|[0-9]+)([CDHS])$/i
MatchesMnemonic(mnemonic) ==
    /\ Len(mnemonic) >= 2
    /\ IsSuitLetter(mnemonic[Len(mnemonic)])
    /\ LET rankStr == SubSeq(mnemonic, 1, Len(mnemonic) - 1)
       IN \/ Len(rankStr) = 1 /\ IsRankLetter(rankStr[1])
          \/ \A k \in 1..Len(rankStr) : IsDigit(rankStr[k])

CardValue(suit, rank) == NumRanks * (suit - 1) + (rank - 1)

fromString(mnemonic) ==
    IF ~MatchesMnemonic(mnemonic) THEN Throw(InvalidMnemonic(mnemonic))
    ELSE LET rankStr == [k \in 1..(Len(mnemonic) - 1) |-> toUpperCase(mnemonic[k])]
             suitChar == toUpperCase(mnemonic[Len(mnemonic)])
             rank == CASE rankStr = <<"A">> -> 1
                       [] rankStr = <<"J">> -> 11
                       [] rankStr = <<"Q">> -> 12
                       [] rankStr = <<"K">> -> 13
                       [] OTHER -> parseInt(rankStr)
             suit == CASE suitChar = "C" -> CLUBS
                       [] suitChar = "D" -> DIAMONDS
                       [] suitChar = "H" -> HEARTS
                       [] suitChar = "S" -> SPADES
         IN [kind |-> "card",
             card |-> [suit |-> suit, rank |-> rank,
                       value |-> CardValue(suit, rank), mnemonic |-> mnemonic]]

----------------------------------------------------------------------------
(* The Deck *)

\* cards[i] for any integer i: a missing element or property reads as undefined
At(cards, i) == IF i \in DOMAIN cards THEN cards[i] ELSE undefined

\* cards[i] = card: an index the array does not hold becomes a property of it
Put(cards, i, card) ==
    IF i \in DOMAIN cards THEN [cards EXCEPT ![i] = card]
    ELSE [k \in DOMAIN cards \cup {i} |-> IF k = i THEN card ELSE cards[k]]

\* an array of the given elements (0-based)
ArrayOf(elems) == [i \in 0..(Len(elems) - 1) |-> elems[i + 1]]

\* this.cards.map(card => card.mnemonic).join("-"); throws on an undefined slot
MnemonicsOf(cards) == [k \in 1..NumCards |-> cards[k - 1].mnemonic]

HasUndefinedSlot(cards) == \E i \in Slots : cards[i] = undefined

createHash(d) ==
    IF HasUndefinedSlot(d.cards) THEN [deck |-> d, result |-> Throw(TypeErrorUndefined)]
    ELSE [deck |-> [d EXCEPT !.hash = Sha256Hex(join(MnemonicsOf(d.cards)))],
          result |-> Void]

initStandard52 ==
    ArrayOf([k \in 1..NumCards |->
        LET suit == ((k - 1) \div NumRanks) + 1
            rank == ((k - 1) % NumRanks) + 1
        IN [suit |-> suit, rank |-> rank, value |-> CardValue(suit, rank),
            mnemonic |-> getCardMnemonic(suit, rank)]])

\* the loop of the constructor over the 52 tokens: the first token that
\* fromString rejects ends it; the last bracketed token sets top
RestoreFrom(mnemonics) ==
    LET n == Len(mnemonics)
        bracketed == {i \in 0..(n - 1) : startsWith(mnemonics[i + 1], "[")
                                         /\ endsWith(mnemonics[i + 1], "]")}
        parsed == [i \in 0..(n - 1) |->
                      fromString(IF i \in bracketed
                                 THEN SubSeq(mnemonics[i + 1], 2, Len(mnemonics[i + 1]) - 1)
                                 ELSE mnemonics[i + 1])]
        rejected == {i \in 0..(n - 1) : parsed[i].kind = "throw"}
    IN IF rejected # {}
       THEN parsed[CHOOSE i \in rejected : \A k \in rejected : i <= k]
       ELSE [kind |-> "restored",
             cards |-> [k \in 1..n |-> parsed[k - 1].card],
             top |-> IF bracketed = {} THEN 0
                     ELSE CHOOSE i \in bracketed : \A k \in bracketed : k <= i]

\* the argument `deck` left out
NoArgument == <<"undefined">>

\* new Deck(arg): [deck |-> the new Deck, result |-> Void], or the error thrown
Constructor(arg) ==
    LET finish(cards, top) ==
            createHash([cards |-> cards, hash |-> ZERO_HASH,
                        seedHash |-> ZERO_HASH, top |-> top])
    IN IF arg # NoArgument /\ arg # <<>>
       THEN LET mnemonics == split(arg)
            IN IF Len(mnemonics) # NumCards
               THEN [deck |-> undefined, result |-> Throw(InvalidDeckLength)]
               ELSE LET r == RestoreFrom(mnemonics)
                    IN IF r.kind = "throw" THEN [deck |-> undefined, result |-> r]
                       ELSE finish(ArrayOf(r.cards), r.top)
       ELSE finish(initStandard52, 0)

\* [this.cards[i], this.cards[j]] = [this.cards[j], this.cards[i]]
Swap(cards, i, j) == Put(Put(cards, i, At(cards, j)), j, At(cards, i))

\* the Fisher-Yates loop: its steps i = hi, hi - 1, ..., lo in this order
RECURSIVE FisherYates(_, _, _, _)
FisherYates(cards, seed, hi, lo) ==
    IF hi < lo THEN cards
    ELSE IF hi = lo THEN Swap(cards, hi, Rem(seed[hi + 1], hi + 1))
    ELSE LET mid == (hi + lo) \div 2
         IN CHOOSE done \in { FisherYates(upper, seed, mid, lo) :
                                upper \in {FisherYates(cards, seed, hi, mid + 1)} } : TRUE

SeedAsString(seed) == join([k \in 1..Len(seed) |-> NumberToString(seed[k])])

\* shuffle with the seed hash stored before the length of the seed is checked
shuffleHashingFirst(d, seedArg, random) ==
    LET seed == IF Len(seedArg) = 0 THEN random ELSE seedArg
        hashed == [d EXCEPT !.seedHash = Sha256Hex(SeedAsString(seed))]
    IN IF Len(seed) # NumCards
       THEN [deck |-> hashed, result |-> Throw(SeedLengthMismatch(Len(seed), NumCards))]
       ELSE createHash([hashed EXCEPT !.cards = FisherYates(d.cards, seed, NumCards - 1, 1)])

\* shuffle without the createHash call that ends it
shuffleKeepingHash(d, seedArg, random) ==
    LET seed == IF Len(seedArg) = 0 THEN random ELSE seedArg
    IN IF Len(seed) # NumCards
       THEN [deck |-> d, result |-> Throw(SeedLengthMismatch(Len(seed), NumCards))]
       ELSE [deck |-> [d EXCEPT !.seedHash = Sha256Hex(SeedAsString(seed)),
                                !.cards = FisherYates(d.cards, seed, NumCards - 1, 1)],
             result |-> Void]

\* shuffle with the seed hash chained onto the seed hash it replaces
shuffleChainingSeedHash(d, seedArg, random) ==
    LET seed == IF Len(seedArg) = 0 THEN random ELSE seedArg
    IN IF Len(seed) # NumCards
       THEN [deck |-> d, result |-> Throw(SeedLengthMismatch(Len(seed), NumCards))]
       ELSE createHash([d EXCEPT !.seedHash = Sha256Hex(d.seedHash \o SeedAsString(seed)),
                                 !.cards = FisherYates(d.cards, seed, NumCards - 1, 1)])

\* shuffle that puts the cursor back to the first card
shuffleResettingTop(d, seedArg, random) ==
    LET seed == IF Len(seedArg) = 0 THEN random ELSE seedArg
    IN IF Len(seed) # NumCards
       THEN [deck |-> d, result |-> Throw(SeedLengthMismatch(Len(seed), NumCards))]
       ELSE createHash([d EXCEPT !.seedHash = Sha256Hex(SeedAsString(seed)),
                                 !.cards = FisherYates(d.cards, seed, NumCards - 1, 1),
                                 !.top = 0])

\* shuffle(seedArg); random is what Math.random yields when no seed is given
shuffle(d, seedArg, random) ==
    LET seed == IF Len(seedArg) = 0 THEN random ELSE seedArg
    IN IF Len(seed) # NumCards
       THEN [deck |-> d, result |-> Throw(SeedLengthMismatch(Len(seed), NumCards))]
       ELSE createHash([d EXCEPT !.seedHash = Sha256Hex(SeedAsString(seed)),
                                 !.cards = FisherYates(d.cards, seed, NumCards - 1, 1)])

getNext(d) ==
    [deck |-> [d EXCEPT !.top = d.top + 1],
     result |-> [kind |-> "card", card |-> At(d.cards, d.top)]]

\* the cards of two runs of getNext calls, one after the other
Drawn(first, rest) ==
    [deck |-> rest.deck,
     result |-> [kind |-> "cards", cards |-> first.result.cards \o rest.result.cards]]

\* amount calls of getNext one after the other, the cards collected in order
\* (each run is evaluated before the next one starts from the deck it leaves)
RECURSIVE GetNextTimes(_, _)
GetNextTimes(d, amount) ==
    IF amount <= 0 THEN [deck |-> d, result |-> [kind |-> "cards", cards |-> <<>>]]
    ELSE IF amount = 1
    THEN CHOOSE one \in { [deck |-> n.deck,
                           result |-> [kind |-> "cards", cards |-> <<n.result.card>>]] :
                          n \in {getNext(d)} } : TRUE
    ELSE CHOOSE all \in UNION { { Drawn(first, rest) :
                                    rest \in {GetNextTimes(first.deck, amount - (amount \div 2))} } :
                                first \in {GetNextTimes(d, amount \div 2)} } : TRUE

deal(d, amount) == GetNextTimes([d EXCEPT !.top = d.top + amount], amount)

toJson(d) == [deck |-> d, result |-> [kind |-> "json", cards |-> d.cards]]

toString(d) ==
    IF HasUndefinedSlot(d.cards) THEN [deck |-> d, result |-> Throw(TypeErrorUndefined)]
    ELSE [deck |-> d,
          result |-> [kind |-> "string",
                      string |-> join([k \in 1..NumCards |->
                          IF k - 1 = d.top
                          THEN <<"[">> \o d.cards[k - 1].mnemonic \o <<"]">>
                          ELSE d.cards[k - 1].mnemonic])]]

----------------------------------------------------------------------------
(* Inputs *)

\* Array.from({ length: 52 }, (_, i) => i)
seedIdentity == [k \in 1..NumCards |-> k - 1]

\* 52, 51, ..., 1
seedDescending == [k \in 1..NumCards |-> NumCards + 1 - k]

\* Array.from({ length: 52 }, (_, i) => i * 100)
seedHundreds == [k \in 1..NumCards |-> (k - 1) * 100]

\* a seed of 52 integers whose last one is negative
seedNegative == [k \in 1..NumCards |-> IF k = NumCards THEN -1 ELSE k - 1]

\* a seed of 52 integers that exchanges the slots 49 and 50 only
seedSwap == [k \in 1..NumCards |-> IF k = NumCards - 1 THEN NumCards - 3 ELSE k - 1]

seedShort == <<1, 2, 3>>

seedLong == [k \in 1..(NumCards + 1) |-> k - 1]

\* the seeds shuffle is called with; <<>> stands for a call with no seed as well
SeedArgs == {<<>>, seedIdentity, seedNegative, seedShort, seedLong}

\* what 52 draws of Math.floor(1000000 * Math.random()) may give
RandomSeeds == {seedHundreds, seedDescending}

\* the seeds the two decks of PairSpec are shuffled with
PairSeeds == {seedSwap, seedNegative}

Amounts == {0, 1, 5, 26, 27}

StandardMnemonics == MnemonicsOf(initStandard52)

\* "AC-2C-...-KS" with brackets around the token at index `top`, if any
StandardString(top) ==
    join([k \in 1..NumCards |->
        IF k - 1 = top THEN <<"[">> \o StandardMnemonics[k] \o <<"]">>
        ELSE StandardMnemonics[k]])

\* the standard deck with its last token replaced
WithLastToken(token) ==
    join([k \in 1..NumCards |-> IF k = NumCards THEN token ELSE StandardMnemonics[k]])

\* strings a Deck is constructed from, beside deck.toString()
DeckStrings ==
    { NoArgument,
      <<>>,
      <<"A", "C", "-", "2", "C", "-", "3", "C">>,
      StandardString(NumCards) \o <<"-", "A", "C">>,
      StandardString(3),
      StandardString(NumCards - 1),
      WithLastToken(<<"X", "X">>),
      WithLastToken(<<"k", "s">>) }

\* mnemonics fromString is called with, beside those getCardMnemonic returns
Mnemonics ==
    { <<"A", "S">>, <<"1", "0", "H">>, <<"K", "C">>, <<"X", "X">>, <<>>,
      <<"a", "s">>, <<"k", "c">>, <<"1", "0", "h">>, <<"J", "d">>, <<"q", "H">>,
      <<"0", "C">>, <<"1", "C">>, <<"1", "1", "D">>, <<"1", "4", "S">>,
      <<"9", "9", "S">>, <<"0", "0", "7", "D">>, <<"2", "X">>, <<"1", "0">>,
      <<"A">>, <<"S">>, <<"A", "A", "S">>, <<"[", "A", "C", "]">>, <<"A", "S", " ">>,
      <<"-", "1", "C">>, <<"1", "A", "S">> }

----------------------------------------------------------------------------
(* The calls *)

FreshDeck == Constructor(NoArgument).deck

Init ==
    /\ deck = FreshDeck
    /\ deck2 = FreshDeck
    /\ call = [op |-> "new Deck", arg |-> NoArgument]
    /\ result = Void
    /\ shuffles = 0

\* the seed shuffle works with: the one given, or a random one
SeedsFor(seedArg) == IF Len(seedArg) = 0 THEN RandomSeeds ELSE {seedArg}

\* deck.shuffle(seedArg)
Shuffle(limit) ==
    \E seedArg \in SeedArgs :
        \E random \in SeedsFor(seedArg) :
            \E r \in {shuffle(deck, seedArg, random)} :
                /\ shuffles < limit
                /\ deck' = r.deck
                /\ result' = r.result
                /\ call' = [op |-> "shuffle", seed |-> seedArg]
                /\ shuffles' = shuffles + 1
                /\ UNCHANGED deck2

\* deck.getNext()
GetNext(limit) ==
    /\ deck.top < limit
    /\ \E r \in {getNext(deck)} :
        /\ deck' = r.deck
        /\ result' = r.result
    /\ call' = [op |-> "getNext"]
    /\ UNCHANGED <<deck2, shuffles>>

\* deck.deal(amount)
Deal(limit) ==
    \E amount \in Amounts :
        \E r \in {deal(deck, amount)} :
            /\ r.deck.top <= limit
            /\ deck' = r.deck
            /\ result' = r.result
            /\ call' = [op |-> "deal", amount |-> amount]
            /\ UNCHANGED <<deck2, shuffles>>

\* deck.toString()
ToStr ==
    /\ \E r \in {toString(deck)} :
        /\ deck' = r.deck
        /\ result' = r.result
    /\ call' = [op |-> "toString"]
    /\ UNCHANGED <<deck2, shuffles>>

\* deck.toJson()
ToJson ==
    /\ \E r \in {toJson(deck)} :
        /\ deck' = r.deck
        /\ result' = r.result
    /\ call' = [op |-> "toJson"]
    /\ UNCHANGED <<deck2, shuffles>>

\* what deck.toString() returns, if it returns
Serialized(d) ==
    LET r == toString(d).result
    IN IF r.kind = "string" THEN {r.string} ELSE {}

\* deck = new Deck(arg), where arg is deck.toString() or one of the given
\* strings; when the constructor throws, deck keeps the instance it held
NewDeck(strings) ==
    \E arg \in strings \cup Serialized(deck) :
        \E r \in {Constructor(arg)} :
            /\ deck' = IF r.result.kind = "throw" THEN deck ELSE r.deck
            /\ result' = r.result
            /\ call' = [op |-> "new Deck", arg |-> arg]
            /\ UNCHANGED <<deck2, shuffles>>

\* deck.shuffle(seed), deck2 left alone
ShuffleFirst ==
    \E seed \in PairSeeds :
        \E r \in {shuffle(deck, seed, seed)} :
            /\ deck' = r.deck
            /\ result' = r.result
            /\ call' = [op |-> "shuffle", on |-> "deck", seed |-> seed]
            /\ UNCHANGED <<deck2, shuffles>>

\* deck2.shuffle(seed), deck left alone
ShuffleSecond ==
    \E seed \in PairSeeds :
        \E r \in {shuffle(deck2, seed, seed)} :
            /\ deck2' = r.deck
            /\ result' = r.result
            /\ call' = [op |-> "shuffle", on |-> "deck2", seed |-> seed]
            /\ UNCHANGED <<deck, shuffles>>

\* deck.shuffle(seed); deck2.shuffle(seed)
ShuffleBoth ==
    \E seed \in PairSeeds :
        \E r \in {shuffle(deck, seed, seed)}, r2 \in {shuffle(deck2, seed, seed)} :
            /\ deck' = r.deck
            /\ deck2' = r2.deck
            /\ result' = r2.result
            /\ call' = [op |-> "shuffle", on |-> "both", seed |-> seed]
            /\ UNCHANGED shuffles

\* deck.getCardMnemonic(suit, rank)
GetCardMnemonic ==
    \E suit \in SUIT, rank \in 1..NumRanks :
        /\ result' = [kind |-> "string", string |-> getCardMnemonic(suit, rank)]
        /\ call' = [op |-> "getCardMnemonic", suit |-> suit, rank |-> rank]
        /\ UNCHANGED <<deck, deck2, shuffles>>

\* Deck.fromString(mnemonic), of a given string or of the one just returned
FromString ==
    \E mnemonic \in Mnemonics \cup
                    (IF result.kind = "string" THEN {result.string} ELSE {}) :
        /\ result' = fromString(mnemonic)
        /\ call' = [op |-> "fromString", mnemonic |-> mnemonic]
        /\ UNCHANGED <<deck, deck2, shuffles>>

----------------------------------------------------------------------------
(* The specifications *)

\* one Deck: shuffled, dealt from near its start, serialized
Next ==
    \/ Shuffle(MaxShuffles)
    \/ GetNext(MaxTop)
    \/ Deal(MaxTop)
    \/ ToStr
    \/ ToJson
    \/ NewDeck({NoArgument})

Spec == Init /\ [][Next]_vars

\* one Deck: dealt through to its end and beyond, serialized and restored
DealNext ==
    \/ Shuffle(MaxDealShuffles)
    \/ GetNext(MaxDealTop)
    \/ Deal(MaxDealTop)
    \/ ToStr
    \/ ToJson
    \/ NewDeck(DeckStrings)

DealSpec == Init /\ [][DealNext]_vars

\* two Decks shuffled with the same seeds
PairNext == ShuffleFirst \/ ShuffleSecond \/ ShuffleBoth

PairSpec == Init /\ [][PairNext]_vars

\* the mnemonic codec
CodecNext == GetCardMnemonic \/ FromString

CodecSpec == Init /\ [][CodecNext]_vars

----------------------------------------------------------------------------
(* Properties *)

\* every (suit, rank) card lies in exactly one of the 52 slots
IsStandardDeck(cards) ==
    \A suit \in SUIT, rank \in 1..NumRanks :
        Cardinality({i \in Slots : /\ cards[i] # undefined
                                   /\ cards[i].suit = suit
                                   /\ cards[i].rank = rank}) = 1

\* the content hash of a card order: what createHash stores for it
ContentHash(cards) == Sha256Hex(join(MnemonicsOf(cards)))

\* C1: from a fresh deck, after any shuffles with 52-integer seeds of any sign,
\* interleaved with getNext and deal, the 52 slots hold every card exactly once.
C1_CardsArePermutation == IsStandardDeck(deck.cards)

\* C2: deal(n) with top + n <= 52 returns what n getNext calls would return
\* from the same state, cards[top..top+n-1], and leaves top advanced by n.
C2_DealIsGetNextTimes ==
    [][ (call'.op = "deal" /\ deck.top + call'.amount <= NumCards)
        => /\ result' = GetNextTimes(deck, call'.amount).result
           /\ result'.cards = [k \in 1..call'.amount |-> deck.cards[deck.top + k - 1]]
           /\ deck'.top = deck.top + call'.amount ]_vars

\* C3: for a deck with top anywhere in 0..52, new Deck(deck.toString()) has the
\* same cards order, the same top and the same hash.
C3_RestoreRoundTrip ==
    [][ (/\ call'.op = "new Deck"
         /\ deck.top \in 0..NumCards
         /\ call'.arg \in Serialized(deck))
        => /\ result' = Void
           /\ deck'.cards = deck.cards
           /\ deck'.top = deck.top
           /\ deck'.hash = deck.hash ]_vars

\* C4: two decks holding the same cards, each shuffled with the same
\* 52-integer seed, end with the same cards, the same hash and the same seedHash.
C4_SameSeedSameDeck ==
    [][ (/\ call'.op = "shuffle"
         /\ call'.on = "both"
         /\ deck.cards = deck2.cards)
        => /\ deck'.cards = deck2'.cards
           /\ deck'.hash = deck2'.hash
           /\ deck'.seedHash = deck2'.seedHash ]_vars

\* C5: shuffle with a non-empty seed whose length is not 52 throws the
\* seed-length error naming both lengths, and cards, hash, seedHash and top
\* are what they were before the call.
C5_BadSeedLengthLeavesDeck ==
    [][ (call'.op = "shuffle" /\ Len(call'.seed) \notin {0, NumCards})
        => /\ result' = Throw(SeedLengthMismatch(Len(call'.seed), NumCards))
           /\ deck'.cards = deck.cards
           /\ deck'.hash = deck.hash
           /\ deck'.seedHash = deck.seedHash
           /\ deck'.top = deck.top ]_vars

\* a shuffle with a seed of 3 has thrown, on a deck shuffled and dealt from before
C5_Witness ==
    /\ call.op = "shuffle"
    /\ call.seed = seedShort
    /\ result = Throw(SeedLengthMismatch(3, NumCards))
    /\ deck.seedHash # ZERO_HASH
    /\ deck.top > 0

C7_WrongTokenCountThrows ==
    [][ (/\ call'.op = "new Deck"
         /\ call'.arg # NoArgument
         /\ Len(split(call'.arg)) # NumCards)
        => /\ result' = Throw(InvalidDeckLength)
           /\ deck' = deck ]_vars

\* the mnemonics of the grammar whose rank symbol is A, J, Q, K or 2..10
IsCardMnemonic(mnemonic) ==
    /\ MatchesMnemonic(mnemonic)
    /\ \/ IsRankLetter(mnemonic[1])
       \/ parseInt(SubSeq(mnemonic, 1, Len(mnemonic) - 1)) \in 2..10

\* C8: fromString throws the invalid-mnemonic error, carrying the string, for
\* every string outside the grammar or with a numeral outside the ranks, and
\* returns no card with a rank outside 1..13 or a value outside 0..51.
C8_BadMnemonicThrows ==
    call.op = "fromString"
    => /\ ~IsCardMnemonic(call.mnemonic)
          => result = Throw(InvalidMnemonic(call.mnemonic))
       /\ result.kind = "card"
          => /\ result.card.rank \in 1..NumRanks
             /\ result.card.value \in 0..(NumCards - 1)

\* C9: fromString(getCardMnemonic(suit, rank)) is the card of that suit and
\* rank, with value 13 * (suit - 1) + (rank - 1) and the encoded string as its
\* mnemonic, and the 52 encodings are pairwise distinct.
C9_CodecRoundTrip ==
    /\ \A suit \in SUIT, rank \in 1..NumRanks :
        (call.op = "fromString" /\ call.mnemonic = getCardMnemonic(suit, rank))
        => result = [kind |-> "card",
                     card |-> [suit |-> suit, rank |-> rank,
                               value |-> NumRanks * (suit - 1) + (rank - 1),
                               mnemonic |-> call.mnemonic]]
    /\ \A s1 \in SUIT, s2 \in SUIT, r1 \in 1..NumRanks, r2 \in 1..NumRanks :
        getCardMnemonic(s1, r1) = getCardMnemonic(s2, r2) => (s1 = s2 /\ r1 = r2)

\* the mnemonic of the ten of hearts has been decoded to that card
C9_Witness ==
    /\ call.op = "fromString"
    /\ call.mnemonic = <<"1", "0", "H">>
    /\ result.kind = "card"
    /\ result.card.suit = HEARTS
    /\ result.card.rank = 10

\* C10: top stays in 0..52 and no call on a deck lowers it.
C10_TopInRangeAndMonotone ==
    [][ /\ deck'.top \in 0..NumCards
        /\ call'.op # "new Deck" => deck'.top >= deck.top ]_vars

\* C11: seedHash is the zero hash on every deck, fresh or restored, until
\* its first shuffle: construction sets it, and getNext, deal, toString,
\* toJson and a shuffle refused for its seed length keep it. A shuffle with an
\* explicit seed of 52 integers sets it to the hash of those integers joined
\* with "-", whatever it was before; a shuffle with no seed sets it to the hash
\* of the seed drawn.
C11_SeedHashOfLastSeed ==
    [][ /\ shuffles' = 0 => deck'.seedHash = ZERO_HASH
        /\ (call'.op = "new Deck" /\ result' = Void) => deck'.seedHash = ZERO_HASH
        /\ call'.op \in {"getNext", "deal", "toString", "toJson"}
           => deck'.seedHash = deck.seedHash
        /\ (call'.op = "shuffle" /\ Len(call'.seed) \notin {0, NumCards})
           => deck'.seedHash = deck.seedHash
        /\ (call'.op = "shuffle" /\ Len(call'.seed) = NumCards)
           => deck'.seedHash =
                 Sha256Hex(join([k \in 1..NumCards |-> NumberToString(call'.seed[k])]))
        /\ (call'.op = "shuffle" /\ Len(call'.seed) = 0)
           => \E random \in RandomSeeds :
                 deck'.seedHash =
                     Sha256Hex(join([k \in 1..NumCards |-> NumberToString(random[k])])) ]_vars

\* a deck shuffled once before has been shuffled with [0..51], and seedHash
\* is the hash of "0-1-...-51"
C11_Witness ==
    /\ call.op = "shuffle"
    /\ call.seed = seedIdentity
    /\ result = Void
    /\ shuffles = 2
    /\ SubSeq(deck.seedHash, 1, 8) = <<"sha256", "0", "-", "1", "-", "2", "-", "3">>
    /\ Len(deck.seedHash) = 1 + 10 + 2 * 42 + 51
    /\ deck.top > 0

\* C12: a shuffle leaves top where it was, on a partly dealt deck too, and
\* the getNext that follows a shuffle returns the card the shuffle left at
\* index top and moves top on by one.
C12_ShuffleKeepsTop ==
    [][ /\ call'.op = "shuffle" => deck'.top = deck.top
        /\ (call'.op = "getNext" /\ call.op = "shuffle" /\ result = Void)
           => /\ result' = [kind |-> "card", card |-> deck.cards[deck.top]]
              /\ deck'.top = deck.top + 1 ]_vars

\* a partly dealt deck has been shuffled: top is where it was, and the card
\* at top is no longer the one the fresh deck had there
C12_Witness ==
    /\ call.op = "shuffle"
    /\ result = Void
    /\ deck.top = 1
    /\ deck.cards[deck.top] # initStandard52[deck.top]
    /\ deck.seedHash # ZERO_HASH

\* the hash of the mnemonics getCardMnemonic gives the cards, joined with "-"
CanonicalHash(cards) ==
    Sha256Hex(join([k \in 1..NumCards |->
                       getCardMnemonic(cards[k - 1].suit, cards[k - 1].rank)]))

\* the two arrays hold the same suits and ranks in the same order
SameSuitsAndRanks(cards, others) ==
    \A i \in Slots : /\ cards[i].suit = others[i].suit
                     /\ cards[i].rank = others[i].rank

\* C13: on every deck whose 52 slots hold cards (fresh, shuffled or restored
\* from a string in either case), hash is the hash of the canonical mnemonics
\* of the cards in their order, so that a deck holding the suits and ranks of
\* another in the same order has the same hash.
C13_HashOfCanonicalMnemonics ==
    ~HasUndefinedSlot(deck.cards)
    => /\ deck.hash = CanonicalHash(deck.cards)
       /\ SameSuitsAndRanks(deck.cards, deck2.cards) => deck.hash = deck2.hash

====
